---- MODULE Spec2Model ----
(***************************************************************************)
(* Model of stock_tracer.py: the weekday filter, the Stochastic and RSI    *)
(* indicator passes, the rounded display frame and the summary statistics, *)
(* run as the linear script inside its outer try/except.                   *)
(*                                                                         *)
(* Floating-point values are modelled as exact rationals extended with the *)
(* IEEE specials NaN, +inf and -inf: a value is a record [k, n, d] with    *)
(* k = "num" (the rational n/d in lowest terms, d > 0), k = "nan",         *)
(* k = "inf" (n = 1 or n = -1 is the sign) or k = "N/A" (the summary's     *)
(* string marker).  Binary rounding error is outside the model.            *)
(***************************************************************************)
EXTENDS Integers, Sequences, FiniteSets

VARIABLES pc, selected_day, df, df_filtered, display_df, summary,
          out, ran, fetched, fetches

\* pc            position in the script
\* selected_day  days_map[day_of_week]
\* df, df_filtered, display_df, summary   the script's variables of those names
\* out           what was rendered on the page, in order
\* ran           history: the stages that have executed
\* fetched       history: the frame fetch_stock_data returned
\* fetches       history: number of calls of fetch_stock_data
vars == <<pc, selected_day, df, df_filtered, display_df, summary,
          out, ran, fetched, fetches>>

\* ------------------------------------------------------------------ bounds
\* Longest series the data-fetch collaborator returns in the model.
MaxRows == 16

\* ------------------------------------------------------- program constants
\* calculate_stochastic(df, period=14) and calculate_rsi(df, period=14)
Period == 14
\* df['%K'].rolling(window=3)
SmoothWindow == 3
\* display_df.round(2) and round(..., 2)
Decimals == 2

\* ------------------------------------------------------------- arithmetic
Abs(x) == IF x < 0 THEN -x ELSE x

RECURSIVE GCD(_, _)
GCD(a, b) == IF b = 0 THEN a ELSE GCD(b, a % b)

RECURSIVE Pow10(_)
Pow10(e) == IF e = 0 THEN 1 ELSE 10 * Pow10(e - 1)

NaN == [k |-> "nan", n |-> 0, d |-> 1]
PosInf == [k |-> "inf", n |-> 1, d |-> 1]
NegInf == [k |-> "inf", n |-> -1, d |-> 1]
NotAvailable == [k |-> "N/A", n |-> 0, d |-> 1]

\* The float nearest to the rational n/d (d # 0), kept exact.
Q(n, d) ==
    LET g == GCD(Abs(n), Abs(d))
        s == IF d < 0 THEN -1 ELSE 1
    IN [k |-> "num", n |-> s * (n \div g), d |-> s * (d \div g)]

Num(i) == Q(i, 1)
Zero == Num(0)

IsNum(a) == a.k = "num"
IsNaN(a) == a.k = "nan"
IsInf(a) == a.k = "inf"
Sign(a) == IF a.n > 0 THEN 1 ELSE IF a.n < 0 THEN -1 ELSE 0

\* a < b on floats: any comparison with NaN is False.
FLt(a, b) ==
    IF IsNaN(a) \/ IsNaN(b) THEN FALSE
    ELSE IF IsInf(a) /\ IsInf(b) THEN a.n < b.n
    ELSE IF IsInf(a) THEN a.n < 0
    ELSE IF IsInf(b) THEN b.n > 0
    ELSE a.n * b.d < b.n * a.d

FLe(a, b) == IF IsNaN(a) \/ IsNaN(b) THEN FALSE ELSE ~FLt(b, a)

FNeg(a) == IF IsNaN(a) THEN NaN ELSE [a EXCEPT !.n = -a.n]

FAdd(a, b) ==
    IF IsNaN(a) \/ IsNaN(b) THEN NaN
    ELSE IF IsInf(a) /\ IsInf(b) THEN (IF a.n = b.n THEN a ELSE NaN)
    ELSE IF IsInf(a) THEN a
    ELSE IF IsInf(b) THEN b
    ELSE LET g == GCD(a.d, b.d)
         IN Q(a.n * (b.d \div g) + b.n * (a.d \div g), a.d * (b.d \div g))

FSub(a, b) == FAdd(a, FNeg(b))

FMul(a, b) ==
    IF IsNaN(a) \/ IsNaN(b) THEN NaN
    ELSE IF IsInf(a) \/ IsInf(b)
         THEN (IF Sign(a) * Sign(b) = 0 THEN NaN
               ELSE IF Sign(a) * Sign(b) > 0 THEN PosInf ELSE NegInf)
    ELSE Q(a.n * b.n, a.d * b.d)

\* IEEE division: x/0 is +inf or -inf, 0/0 and inf/inf are NaN, x/inf is 0.
FDiv(a, b) ==
    IF IsNaN(a) \/ IsNaN(b) THEN NaN
    ELSE IF IsInf(a) THEN (IF IsInf(b) THEN NaN
                           ELSE IF a.n * (IF Sign(b) < 0 THEN -1 ELSE 1) > 0
                                THEN PosInf ELSE NegInf)
    ELSE IF IsInf(b) THEN Zero
    ELSE IF b.n = 0 THEN (IF a.n = 0 THEN NaN
                          ELSE IF a.n > 0 THEN PosInf ELSE NegInf)
    ELSE Q(a.n * b.d, a.d * b.n)

\* The integer nearest to n/d (d > 0), ties to the even one.
RoundHalfEven(n, d) ==
    LET q == n \div d
        r == n % d
    IN IF 2 * r < d THEN q
       ELSE IF 2 * r > d THEN q + 1
       ELSE IF q % 2 = 0 THEN q ELSE q + 1

\* round(x, digits): NaN and the infinities are left as they are.
Round(a, digits) ==
    IF ~IsNum(a) THEN a
    ELSE Q(RoundHalfEven(a.n * Pow10(digits), a.d), Pow10(digits))

\* ---------------------------------------------------------------- series
RECURSIVE FSum(_)
FSum(s) == IF s = <<>> THEN Zero ELSE FAdd(FSum(SubSeq(s, 1, Len(s) - 1)), s[Len(s)])

RECURSIVE FMinSeq(_)
FMinSeq(s) ==
    IF Len(s) = 1 THEN s[1]
    ELSE LET m == FMinSeq(SubSeq(s, 1, Len(s) - 1))
         IN IF FLt(s[Len(s)], m) THEN s[Len(s)] ELSE m

RECURSIVE FMaxSeq(_)
FMaxSeq(s) ==
    IF Len(s) = 1 THEN s[1]
    ELSE LET m == FMaxSeq(SubSeq(s, 1, Len(s) - 1))
         IN IF FLt(m, s[Len(s)]) THEN s[Len(s)] ELSE m

FMeanSeq(s) == FDiv(FSum(s), Num(Len(s)))

Reverse(s) == [i \in 1..Len(s) |-> s[Len(s) + 1 - i]]

\* ---------------------------------------------------------------- frames
\* A DataFrame is [columns, rows]: rows is the sequence of row records in
\* index order, each with the field Date (the index) and one field per column.
Column(frame, c) == [i \in 1..Len(frame.rows) |-> frame.rows[i][c]]

\* frame[c] = vals: the column is added (or overwritten) in place.
SetColumn(frame, c, vals) ==
    [columns |-> frame.columns \cup {c},
     rows |-> [i \in 1..Len(frame.rows) |->
                 [f \in (DOMAIN frame.rows[i]) \cup {c} |->
                     IF f = c THEN vals[i] ELSE frame.rows[i][f]]]]

\* frame[[c1, c2, ...]]: a new frame with the chosen columns.
SelectColumns(frame, cs) ==
    [columns |-> cs,
     rows |-> [i \in 1..Len(frame.rows) |->
                 [f \in cs \cup {"Date"} |-> frame.rows[i][f]]]]

\* DataFrame.empty
Empty(frame) == Len(frame.rows) = 0

DayOfWeek_sunday0(date) == (date + 1) % 7

\* DatetimeIndex.dayofweek, Monday = 0 ... Sunday = 6.  Dates are day
\* numbers counted from a Monday.
DayOfWeek(date) == date % 7

\* Series.rolling(window=w): the window ending at row i yields a value when
\* it holds w observations (min_periods defaults to w); infinities are turned
\* into NaN before the window function runs, and NaN is no observation.
FullWindow(col, w, i) ==
    i >= w /\ \A j \in (i - w + 1)..i : IsNum(col[j])

RollingMin(col, w) ==
    [i \in 1..Len(col) |->
        IF FullWindow(col, w, i) THEN FMinSeq(SubSeq(col, i - w + 1, i)) ELSE NaN]

RollingMax(col, w) ==
    [i \in 1..Len(col) |->
        IF FullWindow(col, w, i) THEN FMaxSeq(SubSeq(col, i - w + 1, i)) ELSE NaN]

RollingMean(col, w) ==
    [i \in 1..Len(col) |->
        IF FullWindow(col, w, i) THEN FMeanSeq(SubSeq(col, i - w + 1, i)) ELSE NaN]

\* Series.diff()
Diff(col) ==
    [i \in 1..Len(col) |-> IF i = 1 THEN NaN ELSE FSub(col[i], col[i - 1])]

Positive(x) == FLt(Zero, x)
Negative(x) == FLt(x, Zero)

\* Series.where(cond, other): the value is kept where cond is True (a
\* comparison with NaN is False), and replaced by other elsewhere.
WherePositive(col, other) ==
    [i \in 1..Len(col) |-> IF Positive(col[i]) THEN col[i] ELSE other]

WhereNegative(col, other) ==
    [i \in 1..Len(col) |-> IF Negative(col[i]) THEN col[i] ELSE other]

\* Series.mean(), Series.max(), Series.min(): NaN entries are skipped.
DropNa(col) == SelectSeq(col, LAMBDA x : ~IsNaN(x))
Mean(col) == IF DropNa(col) = <<>> THEN NaN ELSE FMeanSeq(DropNa(col))
Max(col) == IF DropNa(col) = <<>> THEN NaN ELSE FMaxSeq(DropNa(col))
Min(col) == IF DropNa(col) = <<>> THEN NaN ELSE FMinSeq(DropNa(col))

\* Series.isna().all()
IsNaAll(col) == \A i \in 1..Len(col) : IsNaN(col[i])

\* ------------------------------------------------------------- indicators
\* df['Low'].rolling(window=period).min()
LowestLow(frame, period) == RollingMin(Column(frame, "Low"), period)

HighestHigh_min(frame, period) == RollingMin(Column(frame, "High"), period)

\* df['High'].rolling(window=period).max()
HighestHigh(frame, period) == RollingMax(Column(frame, "High"), period)

\* 100 * ((df['Close'] - df['L14']) / (df['H14'] - df['L14']))
StochasticK(close, l14, h14) ==
    [i \in 1..Len(close) |->
        FMul(Num(100), FDiv(FSub(close[i], l14[i]), FSub(h14[i], l14[i])))]

StochasticD_short(k) == RollingMean(k, SmoothWindow - 1)

\* df['%K'].rolling(window=3).mean()
StochasticD(k) == RollingMean(k, SmoothWindow)

calculate_stochastic(frame, period) ==
    LET withL == SetColumn(frame, "L14", LowestLow(frame, period))
        withH == SetColumn(withL, "H14", HighestHigh(withL, period))
        withK == SetColumn(withH, "%K",
                     StochasticK(Column(withH, "Close"), Column(withH, "L14"),
                                 Column(withH, "H14")))
    IN SetColumn(withK, "%D", StochasticD(Column(withK, "%K")))

\* delta.where(delta > 0, 0).rolling(window=period).mean()
RsiGain(frame, period) ==
    RollingMean(WherePositive(Diff(Column(frame, "Close")), Zero), period)

\* (-delta.where(delta < 0, 0)).rolling(window=period).mean()
RsiLoss(frame, period) ==
    LET kept == WhereNegative(Diff(Column(frame, "Close")), Zero)
    IN RollingMean([i \in 1..Len(kept) |-> FNeg(kept[i])], period)

Rs_swapped(gain, loss) == [i \in 1..Len(gain) |-> FDiv(loss[i], gain[i])]

\* rs = gain / loss
Rs(gain, loss) == [i \in 1..Len(gain) |-> FDiv(gain[i], loss[i])]

calculate_rsi(frame, period) ==
    LET rs == Rs(RsiGain(frame, period), RsiLoss(frame, period))
    IN SetColumn(frame, "RSI",
           [i \in 1..Len(rs) |->
               FSub(Num(100), FDiv(Num(100), FAdd(Num(1), rs[i])))])

\* ------------------------------------------------- data-fetch collaborator
\* Bar shapes, in thousandths of a currency unit.  Normal and Dip keep
\* low <= open, close <= high; Flat has high = low; Spike closes above its
\* high (an upstream violation of the bar invariant).
Normal == [Open |-> 1006, High |-> 1022, Low |-> 1002, Close |-> 1012, Volume |-> 300]
Dip == [Open |-> 1012, High |-> 1016, Low |-> 996, Close |-> 1004, Volume |-> 500]
Flat == [Open |-> 1000, High |-> 1000, Low |-> 1000, Close |-> 1000, Volume |-> 0]
Spike == [Open |-> 1000, High |-> 1000, Low |-> 1000, Close |-> 1004, Volume |-> 100]
Shapes == {Normal, Dip, Flat, Spike}

\* A series repeats a motif of one or two shapes, shifted by a drift per row.
Motifs == {<<a>> : a \in Shapes} \cup {<<a, b>> : a \in Shapes, b \in Shapes}
Drifts == {-24, 0, 24}
\* Calendar days between consecutive bars: daily or weekly.
Strides == {1, 7}
\* Date of the first bar: a Monday or a Thursday.
StartDates == {0, 3}

Price(mills) == Q(mills, 1000)

Bar(motif, drift, start, stride, i) ==
    LET shape == motif[((i - 1) % Len(motif)) + 1]
        off == drift * (i - 1)
    IN [Date |-> start + stride * (i - 1),
        Open |-> Price(shape.Open + off),
        High |-> Price(shape.High + off),
        Low |-> Price(shape.Low + off),
        Close |-> Price(shape.Close + off),
        Volume |-> shape.Volume]

PriceColumns == {"Open", "High", "Low", "Close", "Volume"}

\* What stock.history(start, end) may return: an ordered frame of bars,
\* strictly increasing by date, possibly empty.
History(motif, drift, start, stride, n) ==
    [columns |-> PriceColumns,
     rows |-> [i \in 1..n |-> Bar(motif, drift, start, stride, i)]]

Histories ==
    {History(m, dr, st, sd, n) :
        m \in Motifs, dr \in Drifts, st \in StartDates, sd \in Strides, n \in 0..MaxRows}

\* ----------------------------------------------------------------- script
NoFrame == [columns |-> {}, rows |-> <<>>]
NoSummary == [x \in {} |-> NaN]

\* selectbox offers Monday..Friday; days_map turns the name into 0..4.
SelectableDays == 0..4

DisplayColumns ==
    {"Open", "High", "Low", "Close", "Volume", "Variance", "%K", "%D", "RSI"}

IndicatorStages == {"calculate_stochastic", "calculate_rsi", "summary"}

Init ==
    /\ pc = "fetch"
    /\ selected_day \in SelectableDays
    /\ df = NoFrame
    /\ df_filtered = NoFrame
    /\ display_df = NoFrame
    /\ summary = NoSummary
    /\ out = <<>>
    /\ ran = {}
    /\ fetched = NoFrame
    /\ fetches = 0

FetchStockData_retry ==
    /\ pc = "fetch"
    /\ fetches' = fetches + 1
    /\ \/ \E h \in Histories :
             /\ df' = h
             /\ fetched' = h
             /\ pc' = "check_empty"
       \/ /\ pc' = IF fetches = 0 THEN "fetch" ELSE "except"
          /\ UNCHANGED <<df, fetched>>
    /\ UNCHANGED <<selected_day, df_filtered, display_df, summary, out, ran>>

\* df = fetch_stock_data(ticker, start_date, end_date); stock = get_stock_object(ticker)
\* The collaborator returns a frame or raises; a raise leaves the try block.
FetchStockData ==
    /\ pc = "fetch"
    /\ fetches' = fetches + 1
    /\ \/ \E h \in Histories :
             /\ df' = h
             /\ fetched' = h
             /\ pc' = "check_empty"
       \/ /\ pc' = "except"
          /\ UNCHANGED <<df, fetched>>
    /\ UNCHANGED <<selected_day, df_filtered, display_df, summary, out, ran>>

\* if df.empty: st.error("No data found ...")
CheckEmpty ==
    /\ pc = "check_empty"
    /\ IF Empty(df)
       THEN /\ out' = Append(out, "error: no data")
            /\ pc' = "done"
       ELSE /\ out' = out
            /\ pc' = "day_of_week"
    /\ UNCHANGED <<selected_day, df, df_filtered, display_df, summary, ran, fetched, fetches>>

\* df['DayOfWeek'] = df.index.dayofweek
WithDayOfWeek(frame) ==
    SetColumn(frame, "DayOfWeek",
              [i \in 1..Len(frame.rows) |-> DayOfWeek(frame.rows[i].Date)])

AddDayOfWeek ==
    /\ pc = "day_of_week"
    /\ df' = WithDayOfWeek(df)
    /\ pc' = "filter"
    /\ UNCHANGED <<selected_day, df_filtered, display_df, summary, out, ran, fetched, fetches>>

\* df[df['DayOfWeek'] == day].copy()
FilterDay(frame, day) ==
    [columns |-> frame.columns,
     rows |-> SelectSeq(frame.rows, LAMBDA r : r.DayOfWeek = day)]

Filter ==
    /\ pc = "filter"
    /\ df_filtered' = FilterDay(df, selected_day)
    /\ ran' = ran \cup {"filter"}
    /\ pc' = "check_filtered"
    /\ UNCHANGED <<selected_day, df, display_df, summary, out, fetched, fetches>>

CheckFiltered_noHalt ==
    /\ pc = "check_filtered"
    /\ out' = IF Empty(df_filtered) THEN Append(out, "warning: no data on day") ELSE out
    /\ pc' = "variance"
    /\ UNCHANGED <<selected_day, df, df_filtered, display_df, summary, ran, fetched, fetches>>

\* if df_filtered.empty: st.warning("No data available ...")
CheckFiltered ==
    /\ pc = "check_filtered"
    /\ IF Empty(df_filtered)
       THEN /\ out' = Append(out, "warning: no data on day")
            /\ pc' = "done"
       ELSE /\ out' = out
            /\ pc' = "variance"
    /\ UNCHANGED <<selected_day, df, df_filtered, display_df, summary, ran, fetched, fetches>>

\* df_filtered['Variance'] = df_filtered['High'] - df_filtered['Low']
Variance ==
    /\ pc = "variance"
    /\ df_filtered' = SetColumn(df_filtered, "Variance",
           [i \in 1..Len(df_filtered.rows) |->
               FSub(df_filtered.rows[i].High, df_filtered.rows[i].Low)])
    /\ ran' = ran \cup {"variance"}
    /\ pc' = "stochastic"
    /\ UNCHANGED <<selected_day, df, display_df, summary, out, fetched, fetches>>

\* df_filtered = calculate_stochastic(df_filtered)
Stochastic ==
    /\ pc = "stochastic"
    /\ df_filtered' = calculate_stochastic(df_filtered, Period)
    /\ ran' = ran \cup {"calculate_stochastic"}
    /\ pc' = "rsi"
    /\ UNCHANGED <<selected_day, df, display_df, summary, out, fetched, fetches>>

\* df_filtered = calculate_rsi(df_filtered)
Rsi ==
    /\ pc = "rsi"
    /\ df_filtered' = calculate_rsi(df_filtered, Period)
    /\ ran' = ran \cup {"calculate_rsi"}
    /\ pc' = "display"
    /\ UNCHANGED <<selected_day, df, display_df, summary, out, fetched, fetches>>

\* DataFrame.round(2): float columns are rounded, the integer Volume is not.
RoundFrame(frame, digits) ==
    [columns |-> frame.columns,
     rows |-> [i \in 1..Len(frame.rows) |->
                 [f \in DOMAIN frame.rows[i] |->
                     IF f \in {"Date", "Volume"} THEN frame.rows[i][f]
                     ELSE Round(frame.rows[i][f], digits)]]]

\* sort_index(ascending=False) of a frame whose index is ascending.
SortIndexDescending(frame) == [columns |-> frame.columns, rows |-> Reverse(frame.rows)]

\* display_df = df_filtered[[...]]; .round(2); .sort_index(ascending=False);
\* st.dataframe(display_df) and the three charts.
MakeDisplay(frame) ==
    SortIndexDescending(RoundFrame(SelectColumns(frame, DisplayColumns), Decimals))

Display ==
    /\ pc = "display"
    /\ display_df' = MakeDisplay(df_filtered)
    /\ out' = Append(out, "table and charts")
    /\ pc' = "summary"
    /\ UNCHANGED <<selected_day, df, df_filtered, summary, ran, fetched, fetches>>

MeanOrNA_unguarded(col) == Round(Mean(col), Decimals)

\* round(col.mean(), 2) if not col.isna().all() else "N/A"
MeanOrNA(col) == IF ~IsNaAll(col) THEN Round(Mean(col), Decimals) ELSE NotAvailable

\* summary = {...} computed from display_df
MakeSummary(frame) ==
    [s \in {"Average Open", "Average Close", "Average Variance", "Max High",
            "Min Low", "Average %K", "Average %D", "Average RSI"} |->
        CASE s = "Average Open" -> Round(Mean(Column(frame, "Open")), Decimals)
          [] s = "Average Close" -> Round(Mean(Column(frame, "Close")), Decimals)
          [] s = "Average Variance" -> Round(Mean(Column(frame, "Variance")), Decimals)
          [] s = "Max High" -> Round(Max(Column(frame, "High")), Decimals)
          [] s = "Min Low" -> Round(Min(Column(frame, "Low")), Decimals)
          [] s = "Average %K" -> MeanOrNA(Column(frame, "%K"))
          [] s = "Average %D" -> MeanOrNA(Column(frame, "%D"))
          [] s = "Average RSI" -> MeanOrNA(Column(frame, "RSI"))]

SummaryInput == display_df

Summary ==
    /\ pc = "summary"
    /\ summary' = MakeSummary(SummaryInput)
    /\ ran' = ran \cup {"summary"}
    /\ out' = Append(out, "summary")
    /\ pc' = "insights"
    /\ UNCHANGED <<selected_day, df, df_filtered, display_df, fetched, fetches>>

\* The analyst column: stock.info gives both figures, lacks one of them, or
\* raises (caught by the inner bare except); then the donate button.
AnalystInsights ==
    /\ pc = "insights"
    /\ \E shown \in {<<"analyst insights">>,
                     <<"analyst insights", "info: analyst data may not be available">>,
                     <<"info: unable to fetch analyst data">>} :
          out' = out \o shown \o <<"donate button">>
    /\ pc' = "done"
    /\ UNCHANGED <<selected_day, df, df_filtered, display_df, summary, ran, fetched, fetches>>

\* except Exception as e: st.error(f"Error fetching data: ...")
Except ==
    /\ pc = "except"
    /\ out' = Append(out, "error: exception")
    /\ pc' = "done"
    /\ UNCHANGED <<selected_day, df, df_filtered, display_df, summary, ran, fetched, fetches>>

Next ==
    \/ FetchStockData
    \/ CheckEmpty
    \/ AddDayOfWeek
    \/ Filter
    \/ CheckFiltered
    \/ Variance
    \/ Stochastic
    \/ Rsi
    \/ Display
    \/ Summary
    \/ AnalystInsights
    \/ Except

Spec == Init /\ [][Next]_vars

\* ================================================================= claims
\* The fetch returned a frame (it neither is pending nor raised).
Fetched == fetched.columns # {}
\* The fetch was called and raised.
FetchRaised == fetches > 0 /\ ~Fetched

\* The calendar weekday of a date, Monday = 0, stated without DayOfWeek.
CalendarWeekday(date) == date - 7 * (date \div 7)

Weekdays == 0..6

\* The bars of a frame as plain price bars (derived columns dropped).
Bars(frame) == SelectColumns(frame, PriceColumns).rows

OnWeekday(S, W) == {i \in 1..Len(S) : CalendarWeekday(S[i].Date) = W}

\* C1: for every fetched series S (the empty one included) and every weekday
\* W, the weekday filter returns exactly the bars of S that fall on W, in the
\* order of S; it is empty iff S has no bar on W.  After the script's filter
\* step df_filtered is that result for the selected day.
C1_FilterExact ==
    (pc \in {"check_empty", "check_filtered"}) =>
        /\ \A W \in Weekdays :
              LET S == fetched.rows
                  F == Bars(FilterDay(WithDayOfWeek(fetched), W))
              IN /\ \A j \in 1..Len(F) : CalendarWeekday(F[j].Date) = W
                 /\ {F[j] : j \in 1..Len(F)} = {S[i] : i \in OnWeekday(S, W)}
                 /\ \A j \in 1..Len(F) : \A k \in 1..Len(F) :
                        j < k => F[j].Date < F[k].Date
                 /\ (F = <<>>) <=> (OnWeekday(S, W) = {})
        /\ pc = "check_filtered" =>
              Bars(df_filtered) = Bars(FilterDay(WithDayOfWeek(fetched), selected_day))

\* C1 witness: the filter kept some bars of the series and dropped others.
C1_Witness ==
    /\ pc = "check_filtered"
    /\ Len(df_filtered.rows) > 1
    /\ Len(df_filtered.rows) < Len(fetched.rows)

\* C2: an empty fetched series shows the "no data" error and no later stage
\* runs; a non-empty series whose filtered series is empty shows the warning
\* and neither indicator nor the summary runs; the summary never runs on an
\* empty filtered series.
C2_HaltsOnNoData ==
    /\ (Fetched /\ Empty(fetched)) =>
          /\ ran = {}
          /\ pc \in {"check_empty", "done"}
          /\ pc = "done" => out = <<"error: no data">>
    /\ (Fetched /\ ~Empty(fetched) /\ "filter" \in ran /\ Empty(df_filtered)) =>
          /\ ran = {"filter"}
          /\ pc \in {"check_filtered", "done"}
          /\ pc = "done" => out = <<"warning: no data on day">>
    /\ (ran \cap IndicatorStages # {} \/ pc \in {"stochastic", "rsi", "summary"}) =>
          ~Empty(df_filtered)

\* C2 witness: a run that ended on the warning for an empty filtered series.
C2_Witness ==
    /\ pc = "done"
    /\ Fetched /\ ~Empty(fetched)
    /\ Empty(df_filtered)
    /\ out = <<"warning: no data on day">>

\* C9: when the fetch raises, the outer handler renders exactly one error
\* message, the fetch is not called again, no filter, indicator or summary
\* stage runs, and the script ends normally.
C9_FetchFailureCaught ==
    FetchRaised =>
        /\ fetches = 1
        /\ ran = {}
        /\ df = NoFrame /\ df_filtered = NoFrame /\ summary = NoSummary
        /\ \/ pc = "except" /\ out = <<>>
           \/ pc = "done" /\ out = <<"error: exception">>

\* C9 witness: a run whose fetch raised and which ended after the handler.
C9_Witness == FetchRaised /\ pc = "done" /\ out = <<"error: exception">>

\* C10: the fetched PriceSeries is left unchanged by the later stages: no
\* row or column of it is added, removed or modified.
C10_SourceUnchanged == Fetched => df = fetched

\* The rows of the filtered series once the named stage has run.
Rows == df_filtered.rows
Closes == Column(df_filtered, "Close")

InRange(v) == IsNum(v) /\ FLe(Zero, v) /\ FLe(v, Num(100))

\* The bar keeps low <= close <= high.
CloseWithinBar(r) == FLe(r.Low, r.Close) /\ FLe(r.Close, r.High)

WindowDefined(r) == IsNum(r.L14) /\ IsNum(r.H14) /\ r.H14 # r.L14

\* C3 as claimed: %K is missing on every row with fewer than Period filtered
\* rows ending at it, and whenever it is computed with H14 # L14 it lies in
\* [0, 100].
C3_Original ==
    ("calculate_stochastic" \in ran) =>
        \A i \in 1..Len(Rows) :
            /\ i < Period => IsNaN(Rows[i]["%K"])
            /\ WindowDefined(Rows[i]) => InRange(Rows[i]["%K"])

\* C3 amended: %K is missing on every row with fewer than Period filtered
\* rows ending at it, and whenever it is computed with H14 # L14 on a row
\* whose close lies within its own low and high, it lies in [0, 100].
C3_Amended ==
    ("calculate_stochastic" \in ran) =>
        \A i \in 1..Len(Rows) :
            /\ i < Period => IsNaN(Rows[i]["%K"])
            /\ (WindowDefined(Rows[i]) /\ CloseWithinBar(Rows[i])) =>
                   InRange(Rows[i]["%K"])

\* C3 witness: a row with a full window, H14 # L14 and a close within its
\* bar, whose %K lies strictly inside the range.
C3_Witness ==
    /\ "calculate_stochastic" \in ran
    /\ \E i \in 1..Len(Rows) :
          /\ WindowDefined(Rows[i]) /\ CloseWithinBar(Rows[i])
          /\ FLt(Zero, Rows[i]["%K"]) /\ FLt(Rows[i]["%K"], Num(100))

\* The trailing Period rows ending at row i, and the price moves inside them.
Window(i) == {j \in 1..i : j > i - Period}
Falls(i) == {j \in Window(i) : j > 1 /\ FLt(Closes[j], Closes[j - 1])}
Rises(i) == {j \in Window(i) : j > 1 /\ FLt(Closes[j - 1], Closes[j])}

\* C4: every defined RSI lies in [0, 100], and RSI is 100 exactly on the
\* rows whose trailing Period rows hold no fall (mean loss 0) and at least
\* one rise (mean gain > 0).
C4_RsiRange ==
    ("calculate_rsi" \in ran) =>
        \A i \in 1..Len(Rows) :
            /\ ~IsNaN(Rows[i].RSI) => InRange(Rows[i].RSI)
            /\ (Rows[i].RSI = Num(100)) <=>
                   (i >= Period /\ Falls(i) = {} /\ Rises(i) # {})

\* C4 witness: the series holds a row with RSI = 100.
C4_Witness ==
    /\ "calculate_rsi" \in ran
    /\ \E i \in 1..Len(Rows) : Rows[i].RSI = Num(100)

\* C5: RSI is missing on each of the first Period rows of the series.
C5_RsiMissingOnFirstRows ==
    ("calculate_rsi" \in ran) =>
        \A i \in 1..Len(Rows) : i <= Period => IsNaN(Rows[i].RSI)

\* C6: %D[i] is the arithmetic mean of %K[i-2], %K[i-1], %K[i] when the
\* three are defined, and is missing when row i has fewer than two
\* predecessors or one of the three is undefined.
C6_SmoothedMean ==
    ("calculate_stochastic" \in ran) =>
        \A i \in 1..Len(Rows) :
            IF i >= 3 /\ \A j \in {i - 2, i - 1, i} : IsNum(Rows[j]["%K"])
            THEN Rows[i]["%D"] =
                     FDiv(FAdd(FAdd(Rows[i - 2]["%K"], Rows[i - 1]["%K"]),
                               Rows[i]["%K"]), Num(3))
            ELSE IsNaN(Rows[i]["%D"])

\* C6 witness: a defined %D over %K values that are not all the same.
C6_Witness ==
    /\ "calculate_stochastic" \in ran
    /\ \E i \in 3..Len(Rows) :
          IsNum(Rows[i]["%D"]) /\ Rows[i]["%K"] # Rows[i - 1]["%K"]

IndicatorColumns == {"%K", "%D", "RSI"}
AverageOf(c) ==
    CASE c = "%K" -> "Average %K"
      [] c = "%D" -> "Average %D"
      [] c = "RSI" -> "Average RSI"
      [] c = "Open" -> "Average Open"
      [] c = "Close" -> "Average Close"
      [] c = "Variance" -> "Average Variance"
SummaryKeys ==
    {"Average Open", "Average Close", "Average Variance", "Max High", "Min Low",
     "Average %K", "Average %D", "Average RSI"}

IsTie(x) == IsNum(x) /\ (2 * Pow10(Decimals) * x.n) % x.d = 0
                     /\ (Pow10(Decimals) * x.n) % x.d # 0

\* The statistic of filtered column c that summary entry s reports.
Statistic(s, frame) ==
    CASE s = "Average Open" -> Mean(Column(frame, "Open"))
      [] s = "Average Close" -> Mean(Column(frame, "Close"))
      [] s = "Average Variance" -> Mean(Column(frame, "Variance"))
      [] s = "Max High" -> Max(Column(frame, "High"))
      [] s = "Min Low" -> Min(Column(frame, "Low"))
      [] s = "Average %K" -> Mean(Column(frame, "%K"))
      [] s = "Average %D" -> Mean(Column(frame, "%D"))
      [] s = "Average RSI" -> Mean(Column(frame, "RSI"))

StatisticColumn(s) ==
    CASE s = "Average Open" -> "Open"
      [] s = "Average Close" -> "Close"
      [] s = "Average Variance" -> "Variance"
      [] s = "Max High" -> "High"
      [] s = "Min Low" -> "Low"
      [] s = "Average %K" -> "%K"
      [] s = "Average %D" -> "%D"
      [] s = "Average RSI" -> "RSI"

\* No rounding on the way to summary entry s is decided by a tie.
TieFree(s) ==
    /\ \A i \in 1..Len(Rows) : ~IsTie(Rows[i][StatisticColumn(s)])
    /\ ~IsTie(Statistic(s, df_filtered))
    /\ ~IsTie(Statistic(s, display_df))

\* C8: each numeric summary entry is the statistic of the unrounded filtered
\* column, rounded once to 2 decimals (entries whose rounding is decided by
\* an exact tie are left out: the model cannot tell which way they go).
C8_RoundedOnce ==
    ("summary" \in ran) =>
        \A s \in SummaryKeys :
            (summary[s] # NotAvailable /\ TieFree(s)) =>
                summary[s] = Round(Statistic(s, df_filtered), Decimals)

====
